---- MODULE Spec2Model ----
(***************************************************************************)
(* Model of encore's runtime/rlog package (src/runtime/rlog/rlog.go):      *)
(* the Manager and Ctx logging methods, the With context chain, the       *)
(* doLog pipeline, the structured-sink and trace-buffer field encoders     *)
(* and the pair normalizer.                                                *)
(*                                                                         *)
(* Representation.                                                         *)
(*  - A Go string is a sequence of one-character strings, so that          *)
(*    strings.HasPrefix and "x_" + key are computed, not assumed.          *)
(*  - A Go value of type any is a record [ty, v]: its dynamic type and an  *)
(*    abstract rendering of its content (a string).                        *)
(*  - A Go slice is a triple (arr, len, cap) into heap, the backing        *)
(*    arrays; arr = 0 is the nil slice.  append follows the Go runtime:    *)
(*    in place when the capacity allows, otherwise into a grown copy.      *)
(*  - The zerolog event and context are value records (the sink exposes    *)
(*    typed setters returning a new context); the trace buffer is the      *)
(*    sequence of the writes made to it.                                   *)
(***************************************************************************)
EXTENDS Integers, Sequences, FiniteSets, TLC

VARIABLES
    heap,     \* backing arrays of the []any field slices held by Ctx values
    ctxs,     \* the Ctx values constructed so far: [ctx, arr, len, cap]
    made,     \* history: made[i] is the field list ctxs[i] had when constructed
    last,     \* the call that ran last: its receiver and arguments
    out       \* what that call did: the structured events it emitted (ev.Msg),
              \* the records it handed to curr.Trace.Add, how it ended

vars == <<heap, ctxs, made, last, out>>

----------------------------------------------------------------------------
(* Bounds of the model. *)

\* Number of Ctx values constructed in a behaviour of Spec.
MaxCtx == 2

\* Number of Ctx values constructed in a behaviour of SpecChain.
MaxChain == 4

----------------------------------------------------------------------------
(* Program constants. *)

levelTrace == 0
levelDebug == 1
levelInfo == 2
levelWarn == 3
levelError == 4

errType == 1
strType == 2
boolType == 3
timeType == 4
durType == 5
uuidType == 6
jsonType == 7
intType == 8
uintType == 9
float32Type == 10
float64Type == 11

\* const InternalKeyPrefix = "encore_"
InternalKeyPrefix == <<"e", "n", "c", "o", "r", "e", "_">>

\* the "x_" of  key = "x_" + key
EscapePrefix == <<"x", "_">>

\* stack.Build(3): the number of frames skipped
StackSkip == 3

----------------------------------------------------------------------------
(* Go values. *)

Val(ty, v) == [ty |-> ty, v |-> v]

SignedTypes == {"int8", "int16", "int32", "int64", "int"}
UnsignedTypes == {"uint8", "uint16", "uint32", "uint64", "uint"}

\* the nil interface value: the zero element of a []any
NilAny == Val("nil", <<>>)

\* Keys used by the inputs.
KeyA == Val("string", <<"a">>)
KeyB == Val("string", <<"b">>)
KeyZ == Val("string", <<"z">>)
\* "encore_id": reserved
KeyReserved == Val("string", InternalKeyPrefix \o <<"i", "d">>)
\* "encore": not reserved, one character short of the prefix
KeyNear == Val("string", <<"e", "n", "c", "o", "r", "e">>)
\* an int given where a key is expected
KeyInt == Val("int", <<"7">>)

\* Values used by the inputs: a channel (json.Marshal fails on it), a
\* struct (json.Marshal succeeds), an int, a string, a bool.
ValChan == Val("chan", <<"c", "h">>)
ValStruct == Val("struct", <<"{", "}">>)
ValInt == Val("int", <<"1">>)
ValStr == Val("string", <<"s">>)
ValBool == Val("bool", <<"t">>)

\* Argument lists (keysAndValues): one pair with an unencodable value; a
\* reserved key and an unpaired last argument; two pairs with fallback
\* values, the first unencodable; a pair whose key is not a string, after a
\* well-formed one.
ArgsChan == <<KeyA, ValChan>>
ArgsReservedOdd == <<KeyReserved, ValStr, KeyZ>>
ArgsTwoPairs == <<KeyB, ValChan, KeyNear, ValStruct>>
ArgsIntKey == <<KeyA, ValChan, KeyInt, ValInt>>

\* Argument lists of the log calls of Spec.
ArgLists == { <<>>, ArgsReservedOdd, ArgsTwoPairs, ArgsIntKey }

\* Argument lists of the With calls.
WithLists == { ArgsChan, ArgsReservedOdd, ArgsIntKey }

\* Argument lists of the log calls of SpecChain.
ChainLogLists == { <<KeyB, ValBool>> }

\* The message of the log calls.
Msgs == { <<"m">> }

\* rt.Current(): Req and Trace are pointers, each nil (FALSE) or not (TRUE).
Currents == [Req : BOOLEAN, Trace : BOOLEAN]

\* curr.Req.SpanID and curr.Goctr of a current request
SpanID == <<"s", "p", "a", "n">>
Goctr == 1

----------------------------------------------------------------------------
(* pairs, reserved. *)

\* A pairs that drops the first entry, not the last, of an odd-length list.
pairsDropFirst(keysAndValues) ==
    LET num == Len(keysAndValues)
    IN  IF num % 2 = 1
        THEN SubSeq(keysAndValues, 2, num)
        ELSE keysAndValues

\* pairs ensures the key-values are in pairs: it drops the last entry if
\* there's an odd number of entries (fields[:num]).
pairs(keysAndValues) ==
    LET num == Len(keysAndValues)
    IN  IF num % 2 = 1
        THEN SubSeq(keysAndValues, 1, num - 1)
        ELSE keysAndValues

\* strings.HasPrefix(s, prefix)
HasPrefix(s, prefix) ==
    /\ Len(s) >= Len(prefix)
    /\ SubSeq(s, 1, Len(prefix)) = prefix

reserved(key) == HasPrefix(key, InternalKeyPrefix)

\* if reserved(key) { key = "x_" + key }
escapeKey(key) == IF reserved(key) THEN EscapePrefix \o key ELSE key

----------------------------------------------------------------------------
(* The structured sink (zerolog): an event or a context is the list of the  *)
(* fields set on it, each [key, w, v]: the key written, the typed writer    *)
(* used and the value handed to it.                                          *)

\* The typed writer the switch of addEventEntry / addContext selects.
sinkWriter(val) ==
    CASE val.ty = "error" -> "AnErr"
      [] val.ty = "string" -> "Str"
      [] val.ty = "bool" -> "Bool"
      [] val.ty = "time.Time" -> "Time"
      [] val.ty = "time.Duration" -> "Dur"
      [] val.ty = "uuid.UUID" -> "Str"
      [] val.ty = "int8" -> "Int8"
      [] val.ty = "int16" -> "Int16"
      [] val.ty = "int32" -> "Int32"
      [] val.ty = "int64" -> "Int64"
      [] val.ty = "int" -> "Int"
      [] val.ty = "uint8" -> "Uint8"
      [] val.ty = "uint16" -> "Uint16"
      [] val.ty = "uint32" -> "Uint32"
      [] val.ty = "uint64" -> "Uint64"
      [] val.ty = "uint" -> "Uint"
      [] val.ty = "float32" -> "Float32"
      [] val.ty = "float64" -> "Float64"
      [] OTHER -> "Interface"

SinkField(key, val) == [key |-> key, w |-> sinkWriter(val), v |-> val.v]

\* l.Debug() / l.Info() / ...: a new event of a logger whose context is ctx
NewEvent(level, ctx) == [level |-> level, ctx |-> ctx, fields |-> <<>>]

addEventEntry(ev, key, val) ==
    [ev EXCEPT !.fields = Append(@, SinkField(escapeKey(key), val))]

addContext(ctx, key, val) == Append(ctx, SinkField(escapeKey(key), val))

\* ev.Msg(msg): the event as it is written out
EmittedEvent(ev, msg) ==
    [level |-> ev.level, msg |-> msg, ctx |-> ev.ctx, fields |-> ev.fields]

----------------------------------------------------------------------------
(* The trace buffer: the sequence of the writes made to it, each            *)
(* [op, n, s]: the Buffer method, its numeric argument, its string or       *)
(* byte argument.                                                            *)

Tok(op, n, s) == [op |-> op, n |-> n, s |-> s]

\* Types whose json.Marshal returns an UnsupportedTypeError.
Unmarshalable == {"chan", "func"}

\* json.Marshal(val): [data, err]; err = <<>> is the nil error
jsonMarshal(val) ==
    IF val.ty \in Unmarshalable
    THEN [data |-> <<>>, err |-> <<"u", "n", "s", "u", "p">>]
    ELSE [data |-> val.v, err |-> <<>>]

\* tb.Err(err): n = 0 for the nil error
ErrTok(err) == Tok("Err", IF err = <<>> THEN 0 ELSE 1, err)

\* A fallback entry that drops the embedded error of a failed serialization.
jsonEntryDropErr(tb, key, val) ==
    LET m == jsonMarshal(val)
    IN  IF m.err # <<>>
        THEN tb \o <<Tok("Byte", jsonType, <<>>), Tok("String", 0, key),
                     Tok("ByteString", 0, <<>>)>>
        ELSE tb \o <<Tok("Byte", jsonType, <<>>), Tok("String", 0, key),
                     Tok("ByteString", 0, m.data), ErrTok(<<>>)>>

\* The default case of addTraceBufEntry.
jsonEntry(tb, key, val) ==
    LET m == jsonMarshal(val)
    IN  IF m.err # <<>>
        THEN tb \o <<Tok("Byte", jsonType, <<>>), Tok("String", 0, key),
                     Tok("ByteString", 0, <<>>), ErrTok(m.err)>>
        ELSE tb \o <<Tok("Byte", jsonType, <<>>), Tok("String", 0, key),
                     Tok("ByteString", 0, m.data), ErrTok(<<>>)>>

addTraceBufEntry(tb, key, val) ==
    CASE val.ty = "error" ->
            tb \o <<Tok("Byte", errType, <<>>), Tok("String", 0, key),
                    ErrTok(val.v), Tok("Stack", 0, val.v)>>
      [] val.ty = "string" ->
            tb \o <<Tok("Byte", strType, <<>>), Tok("String", 0, key),
                    Tok("String", 0, val.v)>>
      [] val.ty = "bool" ->
            tb \o <<Tok("Byte", boolType, <<>>), Tok("String", 0, key),
                    Tok("Bool", 0, val.v)>>
      [] val.ty = "time.Time" ->
            tb \o <<Tok("Byte", timeType, <<>>), Tok("String", 0, key),
                    Tok("Time", 0, val.v)>>
      [] val.ty = "time.Duration" ->
            tb \o <<Tok("Byte", durType, <<>>), Tok("String", 0, key),
                    Tok("Int64", 0, val.v)>>
      [] val.ty = "uuid.UUID" ->
            tb \o <<Tok("Byte", uuidType, <<>>), Tok("String", 0, key),
                    Tok("Bytes", 0, val.v)>>
      [] val.ty \in SignedTypes ->
            tb \o <<Tok("Byte", intType, <<>>), Tok("String", 0, key),
                    Tok("Varint", 0, val.v)>>
      [] val.ty \in UnsignedTypes ->
            tb \o <<Tok("Byte", uintType, <<>>), Tok("String", 0, key),
                    Tok("UVarint", 0, val.v)>>
      [] val.ty = "float32" ->
            tb \o <<Tok("Byte", float32Type, <<>>), Tok("String", 0, key),
                    Tok("Float32", 0, val.v)>>
      [] val.ty = "float64" ->
            tb \o <<Tok("Byte", float64Type, <<>>), Tok("String", 0, key),
                    Tok("Float64", 0, val.v)>>
      [] OTHER -> jsonEntry(tb, key, val)

\* The header doLog writes into a new buffer.
TraceHeader(level, msg, numFields) ==
    << Tok("Bytes", 0, SpanID), Tok("UVarint", Goctr, <<>>),
       Tok("Byte", level, <<>>), Tok("String", 0, msg),
       Tok("UVarint", numFields, <<>>) >>

----------------------------------------------------------------------------
(* doLog. *)

NoPanic == "none"
\* fields[i].(string) on a key that is not a string
PanicAssertion == "interface conversion"
\* a method of *trace.Buffer that writes the buffer, called on tb = nil
PanicNilBuffer == "nil pointer dereference"

\* for i := 0; i < len(ctxFields); i += 2 { ... addTraceBufEntry ... }
RECURSIVE ctxFieldsLoop(_, _, _)
ctxFieldsLoop(tb, ctxFields, i) ==
    IF i > Len(ctxFields)
    THEN [tb |-> tb, panic |-> NoPanic]
    ELSE IF ctxFields[i].ty # "string"
         THEN [tb |-> tb, panic |-> PanicAssertion]
         ELSE ctxFieldsLoop(addTraceBufEntry(tb, ctxFields[i].v, ctxFields[i + 1]),
                            ctxFields, i + 2)

\* for i := 0; i < len(logFields); i += 2 { addEventEntry; addTraceBufEntry }
RECURSIVE logFieldsLoop(_, _, _, _, _)
logFieldsLoop(ev, tb, tbNil, logFields, i) ==
    IF i > Len(logFields)
    THEN [ev |-> ev, tb |-> tb, panic |-> NoPanic]
    ELSE IF logFields[i].ty # "string"
         THEN [ev |-> ev, tb |-> tb, panic |-> PanicAssertion]
         ELSE logFieldsLoop(
                  addEventEntry(ev, logFields[i].v, logFields[i + 1]),
                  IF tbNil THEN tb
                  ELSE addTraceBufEntry(tb, logFields[i].v, logFields[i + 1]),
                  tbNil, logFields, i + 2)

\* ev.Msg(msg) and, if curr.Trace != nil, tb.Stack(stack.Build(3)) and
\* curr.Trace.Add(trace.LogMessage, tb.Buf()).  stack.Build runs before
\* tb.Stack is entered; tb.Stack on a nil tb panics when it writes tb.
doLogEmit(r, msg, curr, tbNil) ==
    IF r.panic # NoPanic
    THEN [ events |-> <<>>, traces |-> <<>>, panic |-> r.panic,
           tbMade |-> ~tbNil, tbUsed |-> ~tbNil, stackBuilt |-> FALSE ]
    ELSE [ events |-> <<EmittedEvent(r.ev, msg)>>,
           traces |-> IF curr.Trace /\ ~tbNil
                      THEN << [kind |-> "LogMessage",
                               data |-> Append(r.tb, Tok("Stack", StackSkip, <<>>))] >>
                      ELSE <<>>,
           panic |-> IF curr.Trace /\ tbNil THEN PanicNilBuffer ELSE NoPanic,
           tbMade |-> ~tbNil,
           tbUsed |-> ~tbNil \/ curr.Trace,
           stackBuilt |-> curr.Trace ]

\* The loop over logFields, unless the loop over ctxFields panicked.
doLogFields(r, ev, tbNil, logFields) ==
    IF r.panic # NoPanic
    THEN [ev |-> ev, tb |-> r.tb, panic |-> r.panic]
    ELSE logFieldsLoop(ev, r.tb, tbNil, logFields, 1)

\* The outcome of doLog: the events emitted, the records handed to the
\* trace, the panic that ended it (if any), whether a trace buffer was
\* created (tbMade), whether a method of tb was called (tbUsed) and whether
\* stack.Build ran (stackBuilt).
doLog(level, ev, msg, ctxFields, logFields, curr) ==
    LET numFields == (Len(ctxFields) \div 2) + (Len(logFields) \div 2)
        tbNil == ~(curr.Req /\ curr.Trace)
    IN  doLogEmit(
            doLogFields(
                IF tbNil THEN [tb |-> <<>>, panic |-> NoPanic]
                ELSE ctxFieldsLoop(TraceHeader(level, msg, numFields), ctxFields, 1),
                ev, tbNil, logFields),
            msg, curr, tbNil)

----------------------------------------------------------------------------
(* Slices of []any and the Ctx values. *)

NilSlice == [arr |-> 0, len |-> 0, cap |-> 0]

\* The elements of slice s: s[0:len(s)]
SliceElems(h, s) == IF s.arr = 0 THEN <<>> ELSE SubSeq(h[s.arr], 1, s.len)

\* ctx.fields of a Ctx value
FieldsOf(h, c) == SliceElems(h, c)

\* The capacity of the array append allocates when newLen exceeds oldCap
\* (runtime growslice).  Below 256 elements a slice doubles unless that is
\* too little; the slices of the model stay below 16 elements of 16 bytes,
\* where every capacity is an allocator size class, so nothing is rounded.
growCap(oldCap, newLen) ==
    LET doublecap == oldCap + oldCap
    IN  IF newLen > doublecap THEN newLen ELSE doublecap

\* append(s, xs...): the heap and the slice it returns.
appendSlice(h, s, xs) ==
    LET n == Len(xs)
        newLen == s.len + n
    IN  IF newLen <= s.cap
        THEN [ heap |-> IF n = 0 THEN h
                        ELSE [h EXCEPT ![s.arr] =
                                 [j \in 1..s.cap |->
                                     IF j > s.len /\ j <= newLen
                                     THEN xs[j - s.len] ELSE @[j]]],
               slice |-> [arr |-> s.arr, len |-> newLen, cap |-> s.cap] ]
        ELSE LET newCap == growCap(s.cap, newLen)
             IN  [ heap |-> Append(h, [j \in 1..newCap |->
                               IF j <= s.len THEN h[s.arr][j]
                               ELSE IF j <= newLen THEN xs[j - s.len]
                               ELSE NilAny]),
                   slice |-> [arr |-> Len(h) + 1, len |-> newLen,
                              cap |-> newCap] ]

\* for i := 0; i < len(fields); i += 2 { ctx = addContext(ctx, key, val) }
RECURSIVE withLoop(_, _, _)
withLoop(c, fields, i) ==
    IF i > Len(fields)
    THEN [ctx |-> c, panic |-> NoPanic]
    ELSE IF fields[i].ty # "string"
         THEN [ctx |-> c, panic |-> PanicAssertion]
         ELSE withLoop(addContext(c, fields[i].v, fields[i + 1]), fields, i + 2)

\* The record of a call, kept in last: the method, its receiver (0 for the
\* Manager, i for ctxs[i]), its arguments, the result of pairs, the current
\* request and trace, and the receiver's fields and sink context as the call
\* found them.
Call(op, recv, level, msg, kv, curr, recvFields, recvCtx) ==
    [ op |-> op, recv |-> recv, level |-> level, msg |-> msg, kv |-> kv,
      fields |-> pairs(kv), curr |-> curr,
      recvFields |-> recvFields, recvCtx |-> recvCtx ]

NoCurrent == [Req |-> FALSE, Trace |-> FALSE]

\* The outcome of a With call, which runs no doLog.
WithOut(panic) ==
    [ events |-> <<>>, traces |-> <<>>, panic |-> panic,
      tbMade |-> FALSE, tbUsed |-> FALSE, stackBuilt |-> FALSE ]

----------------------------------------------------------------------------
(* The operations. *)

Init ==
    /\ heap = <<>>
    /\ ctxs = <<>>
    /\ made = <<>>
    /\ last = Call("init", 0, 0, <<>>, <<>>, NoCurrent, <<>>, <<>>)
    /\ out = WithOut(NoPanic)

\* func (l *Manager) With(keysAndValues ...any) Ctx
\* The variadic slice is a new array of exactly the arguments (nil when
\* there are none); pairs reslices it, so the Ctx keeps its capacity.
ManagerWithCall(lists, max) ==
    \E kv \in lists :
        LET fields == pairs(kv)
            r == withLoop(<<>>, fields, 1)
            s == IF Len(kv) = 0 THEN NilSlice
                 ELSE [arr |-> Len(heap) + 1, len |-> Len(fields), cap |-> Len(kv)]
        IN  /\ Len(ctxs) < max
            /\ last' = Call("Manager.With", 0, 0, <<>>, kv, NoCurrent, <<>>, <<>>)
            /\ out' = WithOut(r.panic)
            /\ IF r.panic # NoPanic
               THEN UNCHANGED <<heap, ctxs, made>>
               ELSE /\ heap' = IF Len(kv) = 0 THEN heap ELSE Append(heap, kv)
                    /\ ctxs' = Append(ctxs, [ctx |-> r.ctx, arr |-> s.arr,
                                             len |-> s.len, cap |-> s.cap])
                    /\ made' = Append(made, fields)

\* A With that stores the grown field list in its receiver as well.
CtxWithResultMutatingReceiver(h, cs, i, c, fields) ==
    LET a == appendSlice(h, cs[i], fields)
        child == [ctx |-> c, arr |-> a.slice.arr, len |-> a.slice.len,
                  cap |-> a.slice.cap]
    IN  [ heap |-> a.heap,
          ctxs |-> Append([cs EXCEPT ![i] = child], child) ]

\* fields = append(ctx.fields, fields...)
\* return Ctx{ctx: c, mgr: ctx.mgr, fields: fields}
CtxWithResult(h, cs, i, c, fields) ==
    LET a == appendSlice(h, cs[i], fields)
    IN  [ heap |-> a.heap,
          ctxs |-> Append(cs, [ctx |-> c, arr |-> a.slice.arr,
                               len |-> a.slice.len, cap |-> a.slice.cap]) ]

\* func (ctx Ctx) With(keysAndValues ...any) Ctx
CtxWithCall(lists, max) ==
    \E i \in 1..Len(ctxs), kv \in lists :
        LET fields == pairs(kv)
            r == withLoop(ctxs[i].ctx, fields, 1)
            res == CtxWithResult(heap, ctxs, i, r.ctx, fields)
        IN  /\ Len(ctxs) < max
            /\ last' = Call("Ctx.With", i, 0, <<>>, kv, NoCurrent,
                            FieldsOf(heap, ctxs[i]), ctxs[i].ctx)
            /\ out' = WithOut(r.panic)
            /\ IF r.panic # NoPanic
               THEN UNCHANGED <<heap, ctxs, made>>
               ELSE /\ heap' = res.heap
                    /\ ctxs' = res.ctxs
                    /\ made' = Append(made,
                                      FieldsOf(res.heap, res.ctxs[Len(res.ctxs)]))

\* Manager.Debug / Info / Warn / Error:
\*   fields := pairs(keysAndValues)
\*   l.doLog(level, l.rt.Logger().<Level>(), msg, nil, fields)
ManagerLogCall(op, level, lists) ==
    \E kv \in lists, msg \in Msgs, curr \in Currents :
        /\ last' = Call(op, 0, level, msg, kv, curr, <<>>, <<>>)
        /\ out' = doLog(level, NewEvent(level, <<>>), msg, <<>>, pairs(kv), curr)
        /\ UNCHANGED <<heap, ctxs, made>>

\* Ctx.Debug / Info / Warn / Error:
\*   l := ctx.ctx.Logger()
\*   fields := pairs(keysAndValues)
\*   ctx.mgr.doLog(level, l.<Level>(), msg, ctx.fields, fields)
CtxLogCall(op, level, lists) ==
    \E i \in 1..Len(ctxs), kv \in lists, msg \in Msgs, curr \in Currents :
        /\ last' = Call(op, i, level, msg, kv, curr,
                        FieldsOf(heap, ctxs[i]), ctxs[i].ctx)
        /\ out' = doLog(level, NewEvent(level, ctxs[i].ctx), msg,
                        FieldsOf(heap, ctxs[i]), pairs(kv), curr)
        /\ UNCHANGED <<heap, ctxs, made>>

ManagerDebug == ManagerLogCall("Manager.Debug", levelDebug, ArgLists)
ManagerInfo == ManagerLogCall("Manager.Info", levelInfo, ArgLists)
ManagerWarn == ManagerLogCall("Manager.Warn", levelWarn, ArgLists)
ManagerError == ManagerLogCall("Manager.Error", levelError, ArgLists)
ManagerWith == ManagerWithCall(WithLists, MaxCtx)
CtxDebug == CtxLogCall("Ctx.Debug", levelDebug, ArgLists)
CtxInfo == CtxLogCall("Ctx.Info", levelInfo, ArgLists)
CtxWarn == CtxLogCall("Ctx.Warn", levelWarn, ArgLists)
CtxError == CtxLogCall("Ctx.Error", levelError, ArgLists)
CtxWith == CtxWithCall(WithLists, MaxCtx)

Next ==
    \/ ManagerDebug
    \/ ManagerInfo
    \/ ManagerWarn
    \/ ManagerError
    \/ ManagerWith
    \/ CtxDebug
    \/ CtxInfo
    \/ CtxWarn
    \/ CtxError
    \/ CtxWith

Spec == Init /\ [][Next]_vars

\* The context chain: longer chains of With calls, logged through Ctx.Info.
ChainManagerWith == ManagerWithCall(WithLists, MaxChain)
ChainCtxWith == CtxWithCall(WithLists, MaxChain)
ChainCtxInfo == CtxLogCall("Ctx.Info", levelInfo, ChainLogLists)

NextChain ==
    \/ ChainManagerWith
    \/ ChainCtxWith
    \/ ChainCtxInfo

SpecChain == Init /\ [][NextChain]_vars

----------------------------------------------------------------------------
(* Reading the outcome of a call. *)

LogOps == { "Manager.Debug", "Manager.Info", "Manager.Warn", "Manager.Error",
            "Ctx.Debug", "Ctx.Info", "Ctx.Warn", "Ctx.Error" }
CtxLogOps == { "Ctx.Debug", "Ctx.Info", "Ctx.Warn", "Ctx.Error" }

IsLog == last.op \in LogOps
IsCtxLog == last.op \in CtxLogOps
BothPresent == last.curr.Req /\ last.curr.Trace
TracedCurrent == [Req |-> TRUE, Trace |-> TRUE]

\* The number of writes of a trace record before its first field entry.
HeaderLen == Len(TraceHeader(0, <<>>, 0))

\* An entry that cannot be read back.
Malformed == [tag |-> 0, key |-> <<>>, body |-> <<>>]

\* An independent reading of the field entries of a trace record, by the tag
\* table: [tag][key][payload], the payload of an error or a JSON entry being
\* two writes and every other payload one.
RECURSIVE DecodeEntries(_, _)
DecodeEntries(toks, i) ==
    IF i > Len(toks) THEN <<>>
    ELSE LET w == IF toks[i].n \in {errType, jsonType} THEN 4 ELSE 3
         IN  IF \/ toks[i].op # "Byte"
                \/ i + w - 1 > Len(toks)
                \/ toks[i + 1].op # "String"
             THEN <<Malformed>>
             ELSE << [tag |-> toks[i].n, key |-> toks[i + 1].s,
                      body |-> SubSeq(toks, i + 2, i + w - 1)] >>
                  \o DecodeEntries(toks, i + w)

\* The field entries of record rec, and its last write.
EntriesOf(rec) == DecodeEntries(SubSeq(rec.data, 1, Len(rec.data) - 1), HeaderLen + 1)
LastWrite(rec) == rec.data[Len(rec.data)]
\* The field count written in the header of record rec.
HeaderCount(rec) == rec.data[HeaderLen].n

\* The key and the value of the j-th pair of a field list.
KeyAt(fields, j) == fields[2 * j - 1].v
ValAt(fields, j) == fields[2 * j]
NumPairs(fields) == Len(fields) \div 2

\* The reserved-key rule as the specification states it.
StartsWithReserved(key) ==
    /\ Len(key) >= 7
    /\ SubSeq(key, 1, 7) = <<"e", "n", "c", "o", "r", "e", "_">>
Escaped(key) == IF StartsWithReserved(key) THEN <<"x", "_">> \o key ELSE key

\* The types the encoders have a case for; any other takes the fallback.
KnownTypes ==
    { "error", "string", "bool", "time.Time", "time.Duration", "uuid.UUID",
      "float32", "float64" } \cup SignedTypes \cup UnsignedTypes
TakesFallback(val) == val.ty \notin KnownTypes

AllKeysAreStrings(fields) ==
    \A j \in 1..NumPairs(fields) : fields[2 * j - 1].ty = "string"

\* The sink sub-context a With chain builds from a field list.
SinkOf(fields) == withLoop(<<>>, fields, 1).ctx

\* The writes of the field entries of a field list, each field once, in order.
RECURSIVE EncodeAll(_, _)
EncodeAll(fields, j) ==
    IF j > NumPairs(fields) THEN <<>>
    ELSE addTraceBufEntry(<<>>, KeyAt(fields, j), ValAt(fields, j))
         \o EncodeAll(fields, j + 1)

----------------------------------------------------------------------------
(* The claims. *)

\* C1: for every log call, in every combination of request and trace, the
\* trace buffer is created and a record is handed to the trace sink if and
\* only if a request and a trace are both present; in every other
\* combination no trace buffer is created or dereferenced, no stack is
\* captured and nothing is added to the trace sink.
C1_TraceWorkIffRequestAndTrace ==
    IsLog =>
        /\ BothPresent => (out.tbMade /\ Len(out.traces) = 1)
        /\ ~BothPresent =>
              /\ ~out.tbMade
              /\ ~out.tbUsed
              /\ ~out.stackBuilt
              /\ out.traces = <<>>

\* C2: every field key, inherited or given at the call site, is written to
\* the structured sink and to the trace buffer as its escaped form: "x_" +
\* key when it starts with "encore_", and unchanged otherwise.
C2_KeysEscapedInSinkAndTrace ==
    IsLog =>
        /\ \A e \in 1..Len(out.events) :
              /\ Len(out.events[e].fields) = NumPairs(last.fields)
              /\ \A j \in 1..NumPairs(last.fields) :
                    out.events[e].fields[j].key = Escaped(KeyAt(last.fields, j))
              /\ Len(out.events[e].ctx) = NumPairs(last.recvFields)
              /\ \A j \in 1..NumPairs(last.recvFields) :
                    out.events[e].ctx[j].key = Escaped(KeyAt(last.recvFields, j))
        /\ \A t \in 1..Len(out.traces) :
              LET all == last.recvFields \o last.fields
                  ent == EntriesOf(out.traces[t])
              IN  /\ Len(ent) = NumPairs(all)
                  /\ \A j \in 1..NumPairs(all) : ent[j].key = Escaped(KeyAt(all, j))

\* C5: every log call, with any arguments and in any combination of request
\* and trace, emits the structured event exactly once, with the message, and
\* returns without a panic.
C5_LogCallNeverAborted ==
    IsLog =>
        /\ Len(out.events) = 1
        /\ out.events[1].msg = last.msg
        /\ out.panic = NoPanic

\* C7: pairs returns the longest even-length prefix of its input: the input
\* without its last element when the length is odd, the input itself when
\* it is even, the elements kept in their order.
C7_PairsLongestEvenPrefix ==
    last.op # "init" =>
        /\ Len(last.fields) = Len(last.kv) - (Len(last.kv) % 2)
        /\ \A i \in 1..Len(last.fields) : last.fields[i] = last.kv[i]

\* A call whose argument list has an odd length of at least three, so that
\* pairs dropped an element and kept others.
C7_Witness ==
    /\ last.op # "init"
    /\ Len(last.kv) = 3
    /\ Len(last.fields) = 2

\* C8: the structured event of a log call made when no trace is active
\* (request absent, or request present with trace absent) is identical to
\* the one the same call emits when a request and a trace are both active,
\* and the two runs differ in nothing but the record added to the trace sink.
C8_TracingLeavesStructuredOutputAlone ==
    (IsLog /\ ~BothPresent) =>
        LET traced == doLog(last.level, NewEvent(last.level, last.recvCtx),
                            last.msg, last.recvFields, last.fields, TracedCurrent)
        IN  /\ out.events = traced.events
            /\ out.traces = <<>>
            /\ out.panic = traced.panic

C3_CtxImmutable ==
    \A i \in 1..Len(ctxs) :
        /\ FieldsOf(heap, ctxs[i]) = made[i]
        /\ ctxs[i].ctx = SinkOf(FieldsOf(heap, ctxs[i]))

\* C4: Ctx.With leaves its receiver as it was: the receiver's sink
\* sub-context and field list are those it had before the call, so a log
\* call through the receiver emits an event with the old sub-context and a
\* trace record with exactly the old fields.
C4_WithLeavesReceiver ==
    last.op = "Ctx.With" =>
        LET parent == ctxs[last.recv]
            after == doLog(levelInfo, NewEvent(levelInfo, parent.ctx), <<"m">>,
                           FieldsOf(heap, parent), <<>>, TracedCurrent)
        IN  /\ parent.ctx = last.recvCtx
            /\ parent.len = Len(last.recvFields)
            /\ FieldsOf(heap, parent) = last.recvFields
            /\ after.events[1].ctx = last.recvCtx
            /\ after.events[1].fields = <<>>
            /\ HeaderCount(after.traces[1]) = NumPairs(last.recvFields)
            /\ EntriesOf(after.traces[1])
                   = DecodeEntries(EncodeAll(last.recvFields, 1), 1)

\* A With call that added a pair in place: the child shares the receiver's
\* backing array, one pair longer.
C4_Witness ==
    /\ last.op = "Ctx.With"
    /\ out.panic = NoPanic
    /\ Len(last.fields) = 2
    /\ ctxs[Len(ctxs)].arr = ctxs[last.recv].arr
    /\ ctxs[Len(ctxs)].len = ctxs[last.recv].len + 2

\* C6: a log call through a Ctx emits exactly one structured event, which
\* holds every inherited field through the Ctx's sink sub-context and every
\* call-site field once; when a request and a trace are present, the field
\* count of the record's header is the number of inherited pairs plus the
\* number of call-site pairs, and the entries after it are those fields,
\* each encoded exactly once.
C6_InheritedFieldsOnce ==
    IsCtxLog =>
        LET inherited == made[last.recv]
            all == inherited \o last.fields
        IN  /\ Len(out.events) = 1
            /\ out.events[1].ctx = SinkOf(inherited)
            /\ out.events[1].fields = SinkOf(last.fields)
            /\ BothPresent =>
                  /\ Len(out.traces) = 1
                  /\ HeaderCount(out.traces[1]) = NumPairs(inherited) + NumPairs(last.fields)
                  /\ Len(EntriesOf(out.traces[1])) = HeaderCount(out.traces[1])
                  /\ EntriesOf(out.traces[1]) = DecodeEntries(EncodeAll(all, 1), 1)

\* C10: the field list of the Ctx a Ctx.With call returns is the receiver's
\* list followed by the new pairs in argument order, and the field entries
\* of a trace record are the fields the Ctx accumulated, in that order,
\* followed by the call-site fields in argument order, a repeated key once
\* per occurrence.
C10_FieldOrderPreserved ==
    /\ (last.op = "Ctx.With" /\ out.panic = NoPanic) =>
          FieldsOf(heap, ctxs[Len(ctxs)]) = last.recvFields \o last.fields
    /\ (IsCtxLog /\ Len(out.traces) = 1) =>
          SubSeq(out.traces[1].data, HeaderLen + 1, Len(out.traces[1].data) - 1)
              = EncodeAll(made[last.recv] \o last.fields, 1)

====
